---- MODULE Spec2Model ----
(***************************************************************************)
(* file-bind: the slot table of src/src/extension.ts as a state machine.   *)
(* Paths are sequences of path components, the slot table is a function    *)
(* from decimal slot keys to bindings, and a handler is split where the    *)
(* code awaits the host (a configuration write, the "Clear Slot N?"        *)
(* prompt).                                                                *)
(***************************************************************************)
EXTENDS Integers, Sequences, FiniteSets, TLC

\* ------------------------------------------------------------------ bounds

\* slots 1..NumSlots have commands and table entries in the model
NumSlots == 3
\* configuration writes that may be in flight at once
MaxPending == 2
\* "Clear Slot N?" prompts that may be open at once
MaxPrompts == 1
\* files carried by one delete or rename event
MaxEventFiles == 2
\* events handled in a run in which handlers overlap
MaxEvents == 3

\* ------------------------------------------------------------ constants

MAX_SLOT_COUNT == 9

\* config.get<number>('slotCount', 3): the value read when the setting is unset
DefaultSlotCount == 3

\* config.get<number>('statusPreviewLimit', 3)
DefaultPreviewLimit == 3

\* ---------------------------------------------------------------- paths

\* the first workspace folder, an absolute path
WsRoot == <<"ws">>

\* the files of the host's file system that editors, deletes and renames name
Files == {<<"ws", "a">>, <<"ws", "sub", "b">>, <<"out", "o">>}

\* no active editor (undefined)
NoEditor == <<>>

\* the cursor positions (vscode.Position) the model draws from: the origin, and
\* a position whose line and character differ from it and from each other
Origin == [line |-> 0, character |-> 0]
Positions == {Origin, [line |-> 10, character |-> 4]}

RECURSIVE NormalizeFrom(_, _)
\* path.normalize on components: "." is dropped, ".." removes the component
\* before it (at the root of an absolute path it is dropped)
NormalizeFrom(done, rest) ==
    IF rest = <<>> THEN done
    ELSE LET c == Head(rest) IN
         IF c = "." THEN NormalizeFrom(done, Tail(rest))
         ELSE IF c = ".."
              THEN NormalizeFrom(IF done = <<>> THEN done
                                 ELSE SubSeq(done, 1, Len(done) - 1), Tail(rest))
              ELSE NormalizeFrom(Append(done, c), Tail(rest))

\* path.join(root, rel)
Join(root, rel) == NormalizeFrom(<<>>, root \o rel)

RECURSIVE CommonPrefixLen(_, _)
CommonPrefixLen(a, b) ==
    IF a = <<>> \/ b = <<>> \/ Head(a) # Head(b) THEN 0
    ELSE 1 + CommonPrefixLen(Tail(a), Tail(b))

\* path.relative(from, to) for absolute normalized paths
Relative(from, to) ==
    LET n == CommonPrefixLen(from, to) IN
    [i \in 1..(Len(from) - n) |-> ".."] \o SubSeq(to, n + 1, Len(to))

\* path.relative(workspaceFolder.uri.fsPath, file), tabulated over the files
RelativeToRoot == [f \in Files \cup {NoEditor} |-> Relative(WsRoot, f)]
PathRelative(root, file) == RelativeToRoot[file]

\* the paths a slot can hold
StoredPaths == {Relative(WsRoot, f) : f \in Files}

\* path.join(workspaceFolder.uri.fsPath, binding.filePath), tabulated over the
\* paths a slot can hold
JoinedToRoot == [rel \in StoredPaths |-> Join(WsRoot, rel)]
PathJoin(root, rel) == JoinedToRoot[rel]

\* getWorkspaceRelativePath: the workspace folder is open throughout
getWorkspaceRelativePath(filePath) == PathRelative(WsRoot, filePath)

\* ---------------------------------------------------------------- table

\* slotNumber.toString()
SlotKey(n) == <<"1", "2", "3", "4", "5", "6", "7", "8", "9">>[n]

Slots == 1..NumSlots
Keys == {SlotKey(n) : n \in Slots}

\* undefined, as the result of a failed find
NoSlot == ""

Modes == {"auto", "static"}

\* interface SlotBinding
SlotBinding == {[filePath |-> getWorkspaceRelativePath(f), line |-> p.line,
                 character |-> p.character, mode |-> m] :
                    f \in Files, p \in Positions, m \in Modes}

\* what the settings file may hold for a slot: a legacy path string, or an
\* object whose mode may be missing
StoredString(p) ==
    [form |-> "string", filePath |-> p, line |-> 0, character |-> 0, mode |-> "undefined"]
StoredObject(b) ==
    [form |-> "object", filePath |-> b.filePath, line |-> b.line,
     character |-> b.character, mode |-> b.mode]

\* mutant: a missing mode is copied as it is
getSlots_NoBackfill(raw) ==
    [k \in DOMAIN raw |->
        [filePath |-> raw[k].filePath, line |-> raw[k].line,
         character |-> raw[k].character,
         mode |-> IF raw[k].form = "string" THEN "auto" ELSE raw[k].mode]]

\* getSlots: the migration applied on every read
getSlots(raw) ==
    [k \in DOMAIN raw |->
        IF raw[k].form = "string"
        THEN [filePath |-> raw[k].filePath, line |-> 0, character |-> 0, mode |-> "auto"]
        ELSE [filePath |-> raw[k].filePath, line |-> raw[k].line,
              character |-> raw[k].character,
              mode |-> IF raw[k].mode = "undefined" THEN "auto" ELSE raw[k].mode]]

\* the value config.update('slots', t) stores
ToStored(t) == [k \in DOMAIN t |-> StoredObject(t[k])]

\* delete updatedSlots[k]
Without(t, k) == [j \in DOMAIN t \ {k} |-> t[j]]
\* updatedSlots[k] = b
With(t, k, b) == [j \in DOMAIN t \cup {k} |-> IF j = k THEN b ELSE t[j]]

\* Object.entries(slots).find(([_, b]) => b.filePath === rel)?.[0]: entries of
\* integer keys come in ascending order
FindByPath(slots, rel) ==
    LET hits == {n \in 1..MAX_SLOT_COUNT :
                    SlotKey(n) \in DOMAIN slots /\ slots[SlotKey(n)].filePath = rel}
    IN IF hits = {} THEN NoSlot
       ELSE SlotKey(CHOOSE n \in hits : \A m \in hits : n <= m)

\* getSlotCount
Clamp(count) ==
    LET lo == IF count > 1 THEN count ELSE 1
    IN IF lo < MAX_SLOT_COUNT THEN lo ELSE MAX_SLOT_COUNT

\* ---------------------------------------------------------------- state

VARIABLES
    stored,        \* the 'slots' value of the workspace configuration
    slotCountCfg,  \* the configured 'slotCount', before clamping; <<>> when unset
    activeEditor,  \* the file of vscode.window.activeTextEditor, or NoEditor
    cursor,        \* editor.selection.active of the active editor
    lastEditor,    \* activate's lastEditor
    pending,       \* config.update calls issued and not yet landed, oldest first
    prompts,       \* open "Clear Slot N?" prompts with the snapshot they hold
    overlap,       \* TRUE when events arrive while a handler awaits the host
    events,        \* with overlap, the events handled so far
    previewLimitCfg, \* the configured 'statusPreviewLimit'; <<>> when unset
    statusBar,     \* what the status bar item displays
    escaped        \* TRUE once a rejected config.update has left its handler uncaught

vars == <<stored, slotCountCfg, activeEditor, cursor, lastEditor, pending, prompts,
          overlap, events, previewLimitCfg, statusBar, escaped>>

\* the 'slotCount' setting: <<>> when unset, else <<n>>; the model draws n
\* from below the range (one enabled slot) and above it (every slot enabled)
SlotCountValues == {<<>>, <<0>>, <<10>>}

\* config.get<number>('slotCount', 3)
ConfiguredSlotCount == IF slotCountCfg = <<>> THEN DefaultSlotCount ELSE slotCountCfg[1]

getSlotCount == Clamp(ConfiguredSlotCount)

\* getSlotCount for a given 'slotCount' setting
SlotCountFor(countCfg) == Clamp(IF countCfg = <<>> THEN DefaultSlotCount ELSE countCfg[1])

\* the 'statusPreviewLimit' values the model draws from: unset, below the
\* range, inside it and above it
PreviewLimitValues == {<<>>, <<0>>, <<2>>, <<10>>}

\* mutant: the limit is clamped to MAX_SLOT_COUNT, not to the slot count
PreviewLimitFor_MaxSlots(limitCfg, countCfg) ==
    LET limit == IF limitCfg = <<>> THEN DefaultPreviewLimit ELSE limitCfg[1]
        lo == IF limit > 1 THEN limit ELSE 1
    IN IF lo < MAX_SLOT_COUNT THEN lo ELSE MAX_SLOT_COUNT

\* getPreviewLimit for given settings: Math.min(Math.max(limit, 1), getSlotCount())
PreviewLimitFor(limitCfg, countCfg) ==
    LET limit == IF limitCfg = <<>> THEN DefaultPreviewLimit ELSE limitCfg[1]
        lo == IF limit > 1 THEN limit ELSE 1
    IN IF lo < SlotCountFor(countCfg) THEN lo ELSE SlotCountFor(countCfg)

getPreviewLimit == PreviewLimitFor(previewLimitCfg, slotCountCfg)

\* path.basename
Basename(rel) == rel[Len(rel)]

\* const STATUS_BAR_ICONS: the same icon for each of the nine slots
STATUS_BAR_ICONS == [i \in 1..MAX_SLOT_COUNT |-> "$(go-to-file)"]

\* mutant: the entries are not cut to previewLimit
StatusBarText_NoSlice(slots, slotCount, previewLimit) ==
    LET IsBound(n) == SlotKey(n) \in DOMAIN slots
        bound == SelectSeq([i \in 1..slotCount |-> i], IsBound)
        slotTexts == [i \in 1..Len(bound) |->
                         [icon |-> STATUS_BAR_ICONS[bound[i]],
                          slot |-> bound[i],
                          fileName |-> Basename(slots[SlotKey(bound[i])].filePath),
                          line |-> slots[SlotKey(bound[i])].line + 1]]
        overflow == Len(slotTexts) - previewLimit
    IN IF Len(slotTexts) > 0
       THEN [shown |-> TRUE, visible |-> slotTexts,
             overflow |-> IF overflow > 0 THEN overflow ELSE 0]
       ELSE [shown |-> FALSE, visible |-> <<>>, overflow |-> 0]

\* updateStatusBarDisplay: the entries `${icon} ${slotNumber} ${fileName}:${line + 1}`
\* of the bound slots among 1..slotCount, cut to previewLimit, and the
\* overflow shown as +K (0: none); the item is hidden when no slot is bound
StatusBarText(slots, slotCount, previewLimit) ==
    LET IsBound(n) == SlotKey(n) \in DOMAIN slots
        bound == SelectSeq([i \in 1..slotCount |-> i], IsBound)
        slotTexts == [i \in 1..Len(bound) |->
                         [icon |-> STATUS_BAR_ICONS[bound[i]],
                          slot |-> bound[i],
                          fileName |-> Basename(slots[SlotKey(bound[i])].filePath),
                          line |-> slots[SlotKey(bound[i])].line + 1]]
        overflow == Len(slotTexts) - previewLimit
    IN IF Len(slotTexts) > 0
       THEN [shown |-> TRUE,
             visible |-> SubSeq(slotTexts, 1, IF overflow > 0 THEN previewLimit
                                              ELSE Len(slotTexts)),
             overflow |-> IF overflow > 0 THEN overflow ELSE 0]
       ELSE [shown |-> FALSE, visible |-> <<>>, overflow |-> 0]

\* updateStatusBar(): updateStatusBarDisplay(statusBarItem, getSlots())
StatusBarFor(raw, countCfg, limitCfg) ==
    StatusBarText(getSlots(raw), SlotCountFor(countCfg), PreviewLimitFor(limitCfg, countCfg))

\* the file each slot holds in an initial table, no file in two slots
InitFile == "1" :> <<"ws", "a">> @@ "2" :> <<"ws", "sub", "b">> @@ "3" :> <<"out", "o">>

\* tables a workspace may hold when the extension activates: any subset of
\* these slots, each entry a legacy string or an object written without a mode
InitTables ==
    UNION {[D -> {"string", "object"}] : D \in SUBSET (Keys \cap DOMAIN InitFile)}

InitEntry(k, form) ==
    IF form = "string" THEN StoredString(getWorkspaceRelativePath(InitFile[k]))
    ELSE [form |-> "object", filePath |-> getWorkspaceRelativePath(InitFile[k]),
          line |-> 0, character |-> 0, mode |-> "undefined"]

Init ==
    /\ \E shape \in InitTables : stored = [k \in DOMAIN shape |-> InitEntry(k, shape[k])]
    /\ slotCountCfg \in SlotCountValues
    /\ activeEditor \in Files \cup {NoEditor}
    /\ cursor = Origin
    /\ lastEditor = activeEditor
    /\ pending = <<>>
    /\ prompts = <<>>
    /\ overlap = FALSE
    /\ events = 0
    /\ previewLimitCfg = <<>>
    /\ statusBar = StatusBarFor(stored, slotCountCfg, previewLimitCfg)
    /\ escaped = FALSE

\* an event of the host is taken up
Event ==
    /\ overlap => events < MaxEvents
    /\ events' = IF overlap THEN events + 1 ELSE events

\* a config.update call in flight: the table it carries, the handler that
\* issued it, and what that handler does once the write has landed
Write(op, table, slot, from, newEditor) ==
    [op |-> op, table |-> table, slot |-> slot, from |-> from, newEditor |-> newEditor]

CanWrite == Len(pending) < MaxPending

\* await config.update('slots', w.table, Workspace): with overlap the call
\* stays in flight and other events are handled before it lands
Issue(w) ==
    IF overlap
    THEN /\ CanWrite
         /\ pending' = Append(pending, w)
         /\ UNCHANGED <<stored, statusBar>>
    ELSE /\ stored' = ToStored(w.table)
         /\ UNCHANGED pending
         /\ statusBar' = StatusBarFor(stored', slotCountCfg, previewLimitCfg)

NoWrite == UNCHANGED <<stored, statusBar, pending>>

\* a handler that returns without calling config.update
NoUpdate == Write("none", <<>>, 0, NoSlot, NoEditor)

\* the handler's outcome w takes effect
Perform(w) == IF w.op = "none" THEN NoWrite ELSE Issue(w)

\* the 'slots' value once a handler with outcome w has run to completion on raw
Persisted(raw, w) == IF w.op = "none" THEN raw ELSE ToStored(w.table)

\* ------------------------------------------------------- notifications

\* the commands registered at activation: one pin, jump and clear per slot
Commands == 1..MAX_SLOT_COUNT

\* a command that runs through shows none of the rejections below
NoMessage == [kind |-> "none", slot |-> 0, limit |-> 0]

\* `Slot ${slotNumber} is disabled. Enable it in settings (current limit: ${slotCount})`
SlotDisabled(slotNumber) ==
    [kind |-> "SlotDisabled", slot |-> slotNumber, limit |-> getSlotCount]

\* the other warnings of the command handlers
Warning(kind, slotNumber) == [kind |-> kind, slot |-> slotNumber, limit |-> 0]

\* ------------------------------------------------------- focus tracking

\* handleEditorLeave up to its await: the table it writes, or none
LeaveKey(raw, file) ==
    LET relative == getWorkspaceRelativePath(file) IN
    IF relative = <<>> THEN NoSlot ELSE FindByPath(getSlots(raw), relative)

\* mutant: the mode of the binding is not looked at
LeaveWrites_AnyMode(raw, file) == LeaveKey(raw, file) # NoSlot

LeaveWrites(raw, file) ==
    /\ LeaveKey(raw, file) # NoSlot
    /\ getSlots(raw)[LeaveKey(raw, file)].mode = "auto"

\* mutant: updatedSlots starts empty instead of as a copy of slots
LeaveTable_OnlyTracked(raw, file, position) ==
    LET slots == getSlots(raw)
        k == LeaveKey(raw, file)
    IN [j \in {k} |-> [slots[k] EXCEPT !.line = position.line,
                                       !.character = position.character]]

LeaveTable(raw, file, position) ==
    LET slots == getSlots(raw)
        k == LeaveKey(raw, file)
    IN With(slots, k, [slots[k] EXCEPT !.line = position.line,
                                       !.character = position.character])

\* the onDidChangeActiveTextEditor callback for newEditor; position is the
\* selection of lastEditor when the callback runs
OnDidChangeActiveTextEditor(newEditor, position) ==
    IF lastEditor # NoEditor /\ lastEditor # newEditor /\ LeaveWrites(stored, lastEditor)
    THEN /\ Issue(Write("leave", LeaveTable(stored, lastEditor, position), 0, NoSlot, newEditor))
         /\ lastEditor' = IF overlap THEN lastEditor ELSE newEditor
    ELSE /\ lastEditor' = newEditor
         /\ NoWrite

\* the selection of lastEditor: the cursor when it is the editor being left,
\* any position when the tracker lags behind
LastSelections == IF lastEditor = activeEditor THEN {cursor} ELSE Positions

\* the user focuses another editor, or none
Focus(newEditor) ==
    /\ newEditor # activeEditor
    /\ \E position \in LastSelections : OnDidChangeActiveTextEditor(newEditor, position)
    /\ activeEditor' = newEditor
    /\ cursor' \in (IF newEditor = NoEditor THEN {Origin} ELSE Positions)
    /\ UNCHANGED <<slotCountCfg, prompts, overlap, previewLimitCfg, escaped>>
    /\ Event

\* the user moves the cursor in the active editor
MoveCursor(position) ==
    /\ activeEditor # NoEditor
    /\ position # cursor
    /\ cursor' = position
    /\ UNCHANGED <<stored, statusBar, slotCountCfg, activeEditor, lastEditor, pending, prompts, overlap, previewLimitCfg, escaped>>
    /\ Event

\* ----------------------------------------------------------------- pin

\* moveSlot: the table it writes
MoveTable(slots, fromSlot, toSlot, relativePath, position) ==
    With(Without(slots, fromSlot), SlotKey(toSlot),
         [filePath |-> relativePath, line |-> position.line,
          character |-> position.character, mode |-> slots[fromSlot].mode])

\* mutant: only the enabled slots are copied into updatedSlots
UpdateTable_EnabledOnly(slots, slotNumber, relativePath, position) ==
    [k \in {SlotKey(n) : n \in 1..getSlotCount} \cap (DOMAIN slots \cup {SlotKey(slotNumber)}) |->
        IF k = SlotKey(slotNumber)
        THEN [filePath |-> relativePath, line |-> position.line,
              character |-> position.character,
              mode |-> IF k \in DOMAIN slots THEN slots[k].mode ELSE "auto"]
        ELSE slots[k]]

\* mutant: the line is stored as it is displayed, one-based
UpdateTable_DisplayLine(slots, slotNumber, relativePath, position) ==
    With(slots, SlotKey(slotNumber),
         [filePath |-> relativePath, line |-> position.line + 1,
          character |-> position.character,
          mode |-> IF SlotKey(slotNumber) \in DOMAIN slots
                   THEN slots[SlotKey(slotNumber)].mode ELSE "auto"])

\* mutant: the new binding always takes mode auto
UpdateTable_AlwaysAuto(slots, slotNumber, relativePath, position) ==
    With(slots, SlotKey(slotNumber),
         [filePath |-> relativePath, line |-> position.line,
          character |-> position.character, mode |-> "auto"])

\* updateSlot: the table it writes
UpdateTable(slots, slotNumber, relativePath, position) ==
    With(slots, SlotKey(slotNumber),
         [filePath |-> relativePath, line |-> position.line,
          character |-> position.character,
          mode |-> IF SlotKey(slotNumber) \in DOMAIN slots
                   THEN slots[SlotKey(slotNumber)].mode ELSE "auto"])

\* pinFileToSlot: the write it issues
PinWrite(raw, slotNumber, relativePath, position) ==
    LET slots == getSlots(raw)
        existingSlot == FindByPath(slots, relativePath)
    IN IF existingSlot # NoSlot /\ existingSlot # SlotKey(slotNumber)
       THEN Write("moved", MoveTable(slots, existingSlot, slotNumber, relativePath, position),
                  slotNumber, existingSlot, NoEditor)
       ELSE Write(IF SlotKey(slotNumber) \in DOMAIN slots THEN "rebound" ELSE "bound",
                  UpdateTable(slots, slotNumber, relativePath, position),
                  slotNumber, NoSlot, NoEditor)

\* the information message of moveSlot and updateSlot:
\* `Moved ${fileName} (line ${line + 1}) from Slot ${fromSlot} to Slot ${toSlot}`,
\* `Slot ${slotNumber}: ${oldFileName} -> ${fileName} (line ${line + 1})` or
\* `Bound ${fileName} (line ${line + 1}) to Slot ${slotNumber}`
PinResult(raw, slotNumber, fullPath, relativePath, position) ==
    LET w == PinWrite(raw, slotNumber, relativePath, position)
    IN [kind |-> IF w.op = "moved" THEN "Moved"
                 ELSE IF w.op = "rebound" THEN "Rebound" ELSE "Bound",
        fileName |-> Basename(fullPath),
        line |-> position.line + 1,
        slot |-> slotNumber,
        from |-> w.from,
        previousFileName |-> IF w.op = "rebound"
                             THEN Basename(getSlots(raw)[SlotKey(slotNumber)].filePath)
                             ELSE ""]

\* mutant: the slot limit is compared against MAX_SLOT_COUNT
PinMessage_MaxLimit(slotNumber) ==
    IF slotNumber > MAX_SLOT_COUNT THEN SlotDisabled(slotNumber)
    ELSE IF activeEditor = NoEditor THEN Warning("No active file to bind", 0)
    ELSE IF getWorkspaceRelativePath(activeEditor) = <<>>
         THEN Warning("File must be in workspace", 0)
    ELSE NoMessage

\* the warning pinToSlot<N> returns with, if any: its guards in their order
PinMessage(slotNumber) ==
    IF slotNumber > getSlotCount THEN SlotDisabled(slotNumber)
    ELSE IF activeEditor = NoEditor THEN Warning("No active file to bind", 0)
    ELSE IF getWorkspaceRelativePath(activeEditor) = <<>>
         THEN Warning("File must be in workspace", 0)
    ELSE NoMessage

\* the pinToSlot<N> command accepts the call
PinAccepted(slotNumber) == PinMessage(slotNumber) = NoMessage

\* file-bind.pinToSlot<slotNumber> returns after a warning
PinRejected(slotNumber) ==
    /\ PinMessage(slotNumber) # NoMessage
    /\ UNCHANGED <<stored, statusBar, slotCountCfg, activeEditor, cursor, lastEditor, pending,
                   prompts, overlap, previewLimitCfg, escaped>>
    /\ Event

\* file-bind.pinToSlot<slotNumber>
Pin(slotNumber) ==
    /\ PinAccepted(slotNumber)
    /\ Issue(PinWrite(stored, slotNumber, getWorkspaceRelativePath(activeEditor), cursor))
    /\ UNCHANGED <<slotCountCfg, activeEditor, cursor, lastEditor, prompts, overlap, previewLimitCfg, escaped>>
    /\ Event

\* --------------------------------------------------------------- clear

\* mutant: the key is not deleted from the copy
ClearTable_KeepsSlot(slots, slotNumber) == slots

\* mutant: the kept bindings are written back as fresh bindings at the origin
ClearTable_ResetsPositions(slots, slotNumber) ==
    [k \in DOMAIN slots \ {SlotKey(slotNumber)} |->
        [slots[k] EXCEPT !.line = 0, !.character = 0]]

\* clearSlot: the table it writes
ClearTable(slots, slotNumber) == Without(slots, SlotKey(slotNumber))

\* mutant: the `!binding` check is missing
ClearMessage_NoEmptyCheck(slotNumber) ==
    IF slotNumber > getSlotCount THEN SlotDisabled(slotNumber) ELSE NoMessage

\* the message clearSlot<N> returns with before clearing, if any
ClearMessage(slotNumber) ==
    IF slotNumber > getSlotCount THEN SlotDisabled(slotNumber)
    ELSE IF SlotKey(slotNumber) \notin DOMAIN getSlots(stored)
         THEN Warning("Slot is already empty", slotNumber)
    ELSE NoMessage

ClearAccepted(slotNumber) == ClearMessage(slotNumber) = NoMessage

\* file-bind.clearSlot<slotNumber> returns after a message
ClearRejected(slotNumber) ==
    /\ ClearMessage(slotNumber) # NoMessage
    /\ UNCHANGED <<stored, statusBar, slotCountCfg, activeEditor, cursor, lastEditor, pending,
                   prompts, overlap, previewLimitCfg, escaped>>
    /\ Event

\* file-bind.clearSlot<slotNumber>
Clear(slotNumber) ==
    /\ ClearAccepted(slotNumber)
    /\ Issue(Write("clear", ClearTable(getSlots(stored), slotNumber), slotNumber, NoSlot, NoEditor))
    /\ UNCHANGED <<slotCountCfg, activeEditor, cursor, lastEditor, prompts, overlap, previewLimitCfg, escaped>>
    /\ Event

\* ---------------------------------------------------------------- jump

JumpTarget(slotNumber) ==
    PathJoin(WsRoot, getSlots(stored)[SlotKey(slotNumber)].filePath)

\* the warning jumpToSlot<N> returns with, if any
JumpMessage(slotNumber) ==
    IF slotNumber > getSlotCount THEN SlotDisabled(slotNumber)
    ELSE IF SlotKey(slotNumber) \notin DOMAIN getSlots(stored)
         THEN Warning("Slot is empty", slotNumber)
    ELSE NoMessage

JumpAccepted(slotNumber) == JumpMessage(slotNumber) = NoMessage

\* file-bind.jumpToSlot<slotNumber> returns after a warning
JumpRejected(slotNumber) ==
    /\ JumpMessage(slotNumber) # NoMessage
    /\ UNCHANGED <<stored, statusBar, slotCountCfg, activeEditor, cursor, lastEditor, pending,
                   prompts, overlap, previewLimitCfg, escaped>>
    /\ Event

\* mutant: the jump stores the table it has read
JumpOpens_WritesBack(slotNumber) ==
    /\ JumpAccepted(slotNumber)
    /\ JumpTarget(slotNumber) \in Files
    /\ stored' = ToStored(getSlots(stored))
    /\ statusBar' = StatusBarFor(stored', slotCountCfg, previewLimitCfg)
    /\ lastEditor' = JumpTarget(slotNumber)
    /\ activeEditor' = JumpTarget(slotNumber)
    /\ cursor' = [line |-> getSlots(stored)[SlotKey(slotNumber)].line,
                  character |-> getSlots(stored)[SlotKey(slotNumber)].character]
    /\ UNCHANGED <<slotCountCfg, pending, prompts, overlap, previewLimitCfg, escaped>>
    /\ Event

\* file-bind.jumpToSlot<slotNumber>, the document opens: the editor of the
\* bound file takes the focus and the stored position becomes its selection
JumpOpens(slotNumber) ==
    /\ JumpAccepted(slotNumber)
    /\ JumpTarget(slotNumber) \in Files
    /\ IF JumpTarget(slotNumber) = activeEditor
       THEN UNCHANGED <<lastEditor, stored, statusBar, pending>>
       ELSE \E position \in LastSelections :
                OnDidChangeActiveTextEditor(JumpTarget(slotNumber), position)
    /\ activeEditor' = JumpTarget(slotNumber)
    /\ cursor' = [line |-> getSlots(stored)[SlotKey(slotNumber)].line,
                  character |-> getSlots(stored)[SlotKey(slotNumber)].character]
    /\ UNCHANGED <<slotCountCfg, prompts, overlap, previewLimitCfg, escaped>>
    /\ Event

\* file-bind.jumpToSlot<slotNumber>, the document cannot be opened:
\* handleOpenFileError asks "Clear Slot N?" holding the snapshot of the jump
JumpFails(slotNumber) ==
    /\ JumpAccepted(slotNumber)
    /\ JumpTarget(slotNumber) # activeEditor
    /\ Len(prompts) < MaxPrompts
    /\ prompts' = Append(prompts, [slot |-> slotNumber, slots |-> getSlots(stored)])
    /\ UNCHANGED <<stored, statusBar, slotCountCfg, activeEditor, cursor, lastEditor, pending, overlap, previewLimitCfg, escaped>>
    /\ Event

\* the user answers the oldest prompt with 'Yes': clearSlot on the snapshot
AnswerYes ==
    /\ prompts # <<>>
    /\ Issue(Write("promptclear", ClearTable(Head(prompts).slots, Head(prompts).slot),
                   Head(prompts).slot, NoSlot, NoEditor))
    /\ prompts' = Tail(prompts)
    /\ UNCHANGED <<slotCountCfg, activeEditor, cursor, lastEditor, overlap, previewLimitCfg, escaped>>
    /\ Event

\* the user answers 'No' or dismisses the prompt
AnswerNo ==
    /\ prompts # <<>>
    /\ prompts' = Tail(prompts)
    /\ UNCHANGED <<stored, statusBar, slotCountCfg, activeEditor, cursor, lastEditor, pending, overlap, previewLimitCfg, escaped>>
    /\ Event

\* ------------------------------------------------------ file watchers

\* the uris of a delete event
DeleteEvents == {d \in SUBSET Files : Cardinality(d) \in 1..MaxEventFiles}

\* the {oldUri, newUri} entries of a rename event; the host names each old
\* and each new location once
Renames == {r \in [oldUri : Files, newUri : Files] : r.oldUri # r.newUri}
RenameEvents ==
    {e \in SUBSET Renames :
        /\ Cardinality(e) \in 1..MaxEventFiles
        /\ \A r1, r2 \in e : (r1.oldUri = r2.oldUri \/ r1.newUri = r2.newUri) => r1 = r2}

\* handleFileDeletes: the slots whose joined path is among the deleted files
ClearedSlots(slots, files) ==
    {k \in DOMAIN slots : PathJoin(WsRoot, slots[k].filePath) \in files}

\* mutant: only one uri of the event is looked at
DeleteTable_OneFile(slots, files) ==
    [k \in DOMAIN slots \ ClearedSlots(slots, {CHOOSE f \in files : TRUE}) |-> slots[k]]

DeleteTable(slots, files) ==
    [k \in DOMAIN slots \ ClearedSlots(slots, files) |-> slots[k]]

\* e.files.find(file => file.oldUri.fsPath === fullPath): the entries with
\* that old location, none or one
FindRename(files, fullPath) == {r \in files : r.oldUri = fullPath}

\* handleFileRenames: the slots whose joined path is an old location
UpdatedSlots(slots, files) ==
    {k \in DOMAIN slots : FindRename(files, PathJoin(WsRoot, slots[k].filePath)) # {}}

\* mutant: the new relative path is computed but not stored
RenameTable_KeepsPath(slots, files) == slots

\* mutant: the new binding is built without the old one's mode
RenameTable_DropsMode(slots, files) ==
    [k \in DOMAIN slots |->
        LET renamedFile == FindRename(files, PathJoin(WsRoot, slots[k].filePath)) IN
        IF renamedFile = {} THEN slots[k]
        ELSE [filePath |-> PathRelative(WsRoot, (CHOOSE r \in renamedFile : TRUE).newUri),
              line |-> slots[k].line, character |-> slots[k].character, mode |-> "auto"]]

RenameTable(slots, files) ==
    [k \in DOMAIN slots |->
        LET renamedFile == FindRename(files, PathJoin(WsRoot, slots[k].filePath)) IN
        IF renamedFile = {} THEN slots[k]
        ELSE [slots[k] EXCEPT !.filePath =
                  PathRelative(WsRoot, (CHOOSE r \in renamedFile : TRUE).newUri)]]

\* mutant: config.update is called whether or not a slot was cleared
FileDeletesWrite_Always(raw, files) ==
    Write("delete", DeleteTable(getSlots(raw), files), 0, NoSlot, NoEditor)

\* handleFileDeletes: one config.update when a slot was cleared, else none
FileDeletesWrite(raw, files) ==
    IF ClearedSlots(getSlots(raw), files) # {}
    THEN Write("delete", DeleteTable(getSlots(raw), files), 0, NoSlot, NoEditor)
    ELSE NoUpdate

\* handleFileRenames: one config.update when a slot was updated, else none
FileRenamesWrite(raw, files) ==
    IF UpdatedSlots(getSlots(raw), files) # {}
    THEN Write("rename", RenameTable(getSlots(raw), files), 0, NoSlot, NoEditor)
    ELSE NoUpdate

\* onDidDeleteFiles
FileDeletes(files) ==
    /\ Perform(FileDeletesWrite(stored, files))
    /\ UNCHANGED <<slotCountCfg, activeEditor, cursor, lastEditor, prompts, overlap, previewLimitCfg, escaped>>
    /\ Event

\* onDidRenameFiles
FileRenames(files) ==
    /\ Perform(FileRenamesWrite(stored, files))
    /\ UNCHANGED <<slotCountCfg, activeEditor, cursor, lastEditor, prompts, overlap, previewLimitCfg, escaped>>
    /\ Event

\* ------------------------------------------------------- configuration

\* mutant: the written table is merged into the stored one key by key
WriteLands_Merges ==
    /\ pending # <<>>
    /\ stored' = [k \in DOMAIN stored \cup DOMAIN Head(pending).table |->
                     IF k \in DOMAIN Head(pending).table
                     THEN StoredObject(Head(pending).table[k]) ELSE stored[k]]
    /\ statusBar' = StatusBarFor(stored', slotCountCfg, previewLimitCfg)
    /\ pending' = Tail(pending)
    /\ lastEditor' = IF Head(pending).op = "leave" THEN Head(pending).newEditor ELSE lastEditor
    /\ UNCHANGED <<slotCountCfg, activeEditor, cursor, prompts, overlap, events, previewLimitCfg, escaped>>

\* the oldest config.update lands: the whole 'slots' value is replaced and
\* the handler that awaited it resumes
WriteLands ==
    /\ pending # <<>>
    /\ stored' = ToStored(Head(pending).table)
    /\ statusBar' = StatusBarFor(stored', slotCountCfg, previewLimitCfg)
    /\ pending' = Tail(pending)
    /\ lastEditor' = IF Head(pending).op = "leave" THEN Head(pending).newEditor ELSE lastEditor
    /\ UNCHANGED <<slotCountCfg, activeEditor, cursor, prompts, overlap, events, previewLimitCfg, escaped>>

\* the user sets the mode of a binding in the settings file
EditMode(k, mode) ==
    /\ k \in DOMAIN stored
    /\ stored[k].form = "object"
    /\ stored[k].mode # mode
    /\ stored' = [stored EXCEPT ![k].mode = mode]
    /\ statusBar' = StatusBarFor(stored', slotCountCfg, previewLimitCfg)
    /\ UNCHANGED <<slotCountCfg, activeEditor, cursor, lastEditor, pending, prompts, overlap, previewLimitCfg, escaped>>
    /\ Event

\* the user changes the slotCount setting
EditSlotCount(count) ==
    /\ count # slotCountCfg
    /\ slotCountCfg' = count
    /\ statusBar' = StatusBarFor(stored, count, previewLimitCfg)
    /\ UNCHANGED <<stored, activeEditor, cursor, lastEditor, pending, prompts, overlap, previewLimitCfg, escaped>>
    /\ Event

\* file-bind.showStatus: getSlots and the quick pick; choosing a bound slot
\* runs its jump command
ShowStatus ==
    /\ UNCHANGED <<stored, statusBar, slotCountCfg, activeEditor, cursor, lastEditor, pending,
                   prompts, overlap, previewLimitCfg, escaped>>
    /\ Event

\* mutant: one item for each of the MAX_SLOT_COUNT slots
createQuickPickItems_AllSlots(slots) ==
    [i \in 1..MAX_SLOT_COUNT |->
        IF SlotKey(i) \in DOMAIN slots
        THEN [slot |-> i, bound |-> TRUE, filePath |-> slots[SlotKey(i)].filePath,
              line |-> slots[SlotKey(i)].line + 1,
              character |-> slots[SlotKey(i)].character,
              mode |-> slots[SlotKey(i)].mode]
        ELSE [slot |-> i, bound |-> FALSE, filePath |-> <<>>, line |-> 0,
              character |-> 0, mode |-> ""]]

\* createQuickPickItems: for slotNumber 1..slotCount in order, the item
\* `Slot ${slotNumber}: ${filePath}` with `Line ${line + 1}:${character} - ${mode}`
\* for a bound slot and `Slot ${slotNumber}: Empty` otherwise
createQuickPickItems(slots) ==
    [i \in 1..getSlotCount |->
        IF SlotKey(i) \in DOMAIN slots
        THEN [slot |-> i, bound |-> TRUE, filePath |-> slots[SlotKey(i)].filePath,
              line |-> slots[SlotKey(i)].line + 1,
              character |-> slots[SlotKey(i)].character,
              mode |-> slots[SlotKey(i)].mode]
        ELSE [slot |-> i, bound |-> FALSE, filePath |-> <<>>, line |-> 0,
              character |-> 0, mode |-> ""]]

\* updateStatusBar: getSlots and the status bar text
UpdateStatusBar ==
    /\ statusBar' = StatusBarFor(stored, slotCountCfg, previewLimitCfg)
    /\ UNCHANGED <<stored, slotCountCfg, activeEditor, cursor, lastEditor, pending,
                   prompts, overlap, previewLimitCfg, escaped>>
    /\ Event

\* mutant: the configuration watcher does not react to statusPreviewLimit
EditPreviewLimit_NoRefresh(limit) ==
    /\ limit # previewLimitCfg
    /\ previewLimitCfg' = limit
    /\ UNCHANGED <<stored, statusBar, slotCountCfg, activeEditor, cursor, lastEditor, pending,
                   prompts, overlap, escaped>>
    /\ Event

\* the user changes the statusPreviewLimit setting: the configuration watcher
\* refreshes the status bar
EditPreviewLimit(limit) ==
    /\ limit # previewLimitCfg
    /\ previewLimitCfg' = limit
    /\ statusBar' = StatusBarFor(stored, slotCountCfg, limit)
    /\ UNCHANGED <<stored, slotCountCfg, activeEditor, cursor, lastEditor, pending,
                   prompts, overlap, escaped>>
    /\ Event

\* the oldest config.update is rejected by the host: the await throws in a
\* handler that has no try/catch, so the rest of the handler does not run
WriteFails ==
    /\ pending # <<>>
    /\ pending' = Tail(pending)
    /\ escaped' = TRUE
    /\ UNCHANGED <<stored, statusBar, slotCountCfg, activeEditor, cursor, lastEditor,
                   prompts, overlap, events, previewLimitCfg>>

\* ------------------------------------------------------- specification

\* the events of the host, each handled to completion
Next ==
    \/ \E f \in Files \cup {NoEditor} : Focus(f)
    \/ \E p \in Positions : MoveCursor(p)
    \/ \E n \in Slots : Pin(n)
    \/ \E n \in Slots : Clear(n)
    \/ \E n \in Slots : JumpOpens(n)
    \/ \E d \in DeleteEvents : FileDeletes(d)
    \/ \E r \in RenameEvents : FileRenames(r)
    \/ \E k \in Keys, m \in Modes : EditMode(k, m)
    \/ \E c \in SlotCountValues : EditSlotCount(c)
    \/ \E n \in Slots : PinRejected(n)
    \/ \E n \in Slots : JumpRejected(n)
    \/ \E n \in Slots : ClearRejected(n)
    \/ ShowStatus
    \/ UpdateStatusBar

Spec == Init /\ [][Next]_vars

\* handlers overlap: a config.update lands after later events were taken up,
\* and a "Clear Slot N?" prompt stays open while the user goes on working
\* the run starts from a table with a tracked binding, a static binding and an
\* empty slot
OverlapTable ==
    [k \in {"1", "2"} |->
        [form |-> "object", filePath |-> getWorkspaceRelativePath(InitFile[k]),
         line |-> 0, character |-> 0, mode |-> IF k = "1" THEN "auto" ELSE "static"]]

InitOverlap ==
    /\ stored = OverlapTable
    /\ slotCountCfg = <<10>>
    /\ activeEditor \in Files \cup {NoEditor}
    /\ cursor = Origin
    /\ lastEditor = activeEditor
    /\ pending = <<>>
    /\ prompts = <<>>
    /\ overlap = TRUE
    /\ events = 0
    /\ previewLimitCfg = <<>>
    /\ statusBar = StatusBarFor(stored, slotCountCfg, previewLimitCfg)
    /\ escaped = FALSE

NextOverlap ==
    \/ \E f \in Files \cup {NoEditor} : Focus(f)
    \/ \E p \in Positions : MoveCursor(p)
    \/ \E n \in Slots : Pin(n)
    \/ \E n \in Slots : Clear(n)
    \/ \E n \in Slots : JumpOpens(n)
    \/ \E n \in Slots : JumpFails(n)
    \/ AnswerYes
    \/ AnswerNo
    \/ \E d \in DeleteEvents : FileDeletes(d)
    \/ \E r \in RenameEvents : FileRenames(r)
    \/ WriteLands

SpecOverlap == InitOverlap /\ [][NextOverlap]_vars

\* handlers overlap while the user edits the settings the status bar is
\* rendered from
NextStatus ==
    \/ NextOverlap
    \/ \E k \in Keys, m \in Modes : EditMode(k, m)
    \/ \E c \in SlotCountValues : EditSlotCount(c)
    \/ \E limit \in PreviewLimitValues : EditPreviewLimit(limit)
    \/ UpdateStatusBar

SpecStatus == InitOverlap /\ [][NextStatus]_vars

\* handlers overlap and the host may reject a config.update
NextStorage ==
    \/ NextOverlap
    \/ WriteFails

SpecStorage == InitOverlap /\ [][NextStorage]_vars

\* ------------------------------------------------------- the slot document

\* a JSON number where a binding is expected, as in {"1": 42}
StoredNumber(n) ==
    [form |-> "number", filePath |-> <<>>, line |-> n, character |-> 0, mode |-> "undefined"]

\* the values a hand-edited slots.json may give a slot: a binding, a legacy
\* path string, a number, and an object whose line is negative
DocumentEntries ==
    {StoredObject([filePath |-> <<"a">>, line |-> 10, character |-> 4, mode |-> "static"]),
     StoredString(<<"sub", "b">>),
     StoredNumber(42),
     StoredObject([filePath |-> <<"a">>, line |-> 0 - 1, character |-> 0, mode |-> "auto"])}

\* the JSON objects the editor may save
DocumentTables == UNION {[D -> DocumentEntries] : D \in SUBSET Keys}

\* the bytes handed to writeFile: text that JSON.parse rejects, or the text of
\* a JSON object
Malformed == [parses |-> FALSE, value |-> <<>>]
Json(value) == [parses |-> TRUE, value |-> value]
Contents == {Malformed} \cup {Json(t) : t \in DocumentTables}

\* ConfigFileSystemProvider.writeFile for '/slots.json': JSON.parse, then
\* workspaceState.update with the parsed value as it is; a parse error is
\* rethrown as FileSystemError.Unavailable("Invalid JSON")
writeFile(raw, content) ==
    IF content.parses
    THEN [stored |-> content.value, error |-> "none"]
    ELSE [stored |-> raw, error |-> "Unavailable"]

\* the user saves the slot document
WriteFile(content) ==
    /\ stored' = writeFile(stored, content).stored
    /\ UNCHANGED <<statusBar, slotCountCfg, activeEditor, cursor, lastEditor, pending,
                   prompts, overlap, events, previewLimitCfg, escaped>>

InitDocument ==
    /\ stored = OverlapTable
    /\ slotCountCfg = <<>>
    /\ activeEditor = NoEditor
    /\ cursor = Origin
    /\ lastEditor = NoEditor
    /\ pending = <<>>
    /\ prompts = <<>>
    /\ overlap = FALSE
    /\ events = 0
    /\ previewLimitCfg = <<>>
    /\ statusBar = StatusBarFor(stored, slotCountCfg, previewLimitCfg)
    /\ escaped = FALSE

NextDocument == \E content \in Contents : WriteFile(content)

SpecDocument == InitDocument /\ [][NextDocument]_vars

\* ------------------------------------------------------- the selection list

\* the label of a quick pick item as its words: `$(sparkle) Slot ${n}: ${filePath}`
\* with the path's components, or `$(circle-outline) Slot ${n}: Empty`
Label(item) ==
    IF item.bound
    THEN <<"$(sparkle)", "Slot", SlotKey(item.slot), ":">> \o item.filePath
    ELSE <<"$(circle-outline)", "Slot", SlotKey(item.slot), ":", "Empty">>

\* label.includes(word)
Includes(label, word) == \E i \in 1..Len(label) : label[i] = word

\* no jump follows the selection
NoSelection == 0

\* the accept handler of showStatus: label.match(/Slot (\d)/) gives the slot
\* of the first match, and the jump runs unless the label includes 'Empty'
SelectedSlot(label) ==
    LET digits == {SlotKey(n) : n \in 1..MAX_SLOT_COUNT}
        matches == {i \in 1..(Len(label) - 1) : label[i] = "Slot" /\ label[i + 1] \in digits}
        first == CHOOSE i \in matches : \A j \in matches : i <= j
    IN IF Includes(label, "Slot") /\ matches # {} /\ ~Includes(label, "Empty")
       THEN CHOOSE n \in 1..MAX_SLOT_COUNT : SlotKey(n) = label[first + 1]
       ELSE NoSelection

\* the user accepts item i of the list: executeCommand(`file-bind.jumpToSlot${n}`)
\* for the slot read from the label, or nothing
SelectItem(i) ==
    /\ i <= getSlotCount
    /\ LET n == SelectedSlot(Label(createQuickPickItems(getSlots(stored))[i]))
       IN IF n = NoSelection
          THEN /\ UNCHANGED <<stored, statusBar, slotCountCfg, activeEditor, cursor, lastEditor,
                              pending, prompts, overlap, previewLimitCfg, escaped>>
               /\ Event
          ELSE JumpOpens(n)

\* the workspace-relative path each slot may hold when the list is shown; one
\* of the files is named Empty
SelectFile == "1" :> <<"a">> @@ "2" :> <<"sub", "b">> @@ "3" :> <<"Empty">>

InitSelect ==
    /\ \E D \in SUBSET Keys : \E at \in [D -> Positions] :
          stored = [k \in D |->
                       StoredObject([filePath |-> SelectFile[k],
                                     line |-> at[k].line, character |-> at[k].character,
                                     mode |-> "auto"])]
    /\ slotCountCfg \in SlotCountValues
    /\ activeEditor \in Files \cup {NoEditor}
    /\ cursor = Origin
    /\ lastEditor = activeEditor
    /\ pending = <<>>
    /\ prompts = <<>>
    /\ overlap = FALSE
    /\ events = 0
    /\ previewLimitCfg = <<>>
    /\ statusBar = StatusBarFor(stored, slotCountCfg, previewLimitCfg)
    /\ escaped = FALSE

NextSelect ==
    \/ \E i \in Commands : SelectItem(i)
    \/ \E p \in Positions : MoveCursor(p)
    \/ \E c \in SlotCountValues : EditSlotCount(c)

SpecSelect == InitSelect /\ [][NextSelect]_vars

\* ------------------------------------------------- the earlier delete handler

\* the earlier version keeps 'slots' as Record<string, string>: slot -> path
EarlierTables ==
    UNION {[D -> {"string"}] : D \in SUBSET (Keys \cap DOMAIN InitFile)}

\* the slots of the loop whose joined path is among the deleted files, in the
\* order of Object.entries
EarlierCleared(slots, files) ==
    SelectSeq([n \in 1..MAX_SLOT_COUNT |-> SlotKey(n)],
              LAMBDA k : k \in DOMAIN slots /\ PathJoin(WsRoot, slots[k].filePath) \in files)

\* the config.update calls of the earlier onDidDeleteFiles listener, in
\* order: inside the loop a copy of slots without the one matching slot, and
\* after the loop, if anything matched, slots itself
EarlierDeleteWrites(slots, files) ==
    LET cleared == EarlierCleared(slots, files)
    IN IF cleared = <<>> THEN <<>>
       ELSE [i \in 1..Len(cleared) |-> Without(slots, cleared[i])] \o <<slots>>

\* the earlier onDidDeleteFiles listener runs: its writes are awaited one
\* after the other
EarlierFileDeletes(files) ==
    /\ pending = <<>>
    /\ pending' = EarlierDeleteWrites(stored, files)
    /\ UNCHANGED <<stored, statusBar, slotCountCfg, activeEditor, cursor, lastEditor,
                   prompts, overlap, events, previewLimitCfg, escaped>>

\* the next config.update of the listener lands
EarlierWriteLands ==
    /\ pending # <<>>
    /\ stored' = Head(pending)
    /\ pending' = Tail(pending)
    /\ UNCHANGED <<statusBar, slotCountCfg, activeEditor, cursor, lastEditor,
                   prompts, overlap, events, previewLimitCfg, escaped>>

InitEarlier ==
    /\ \E shape \in EarlierTables : stored = [k \in DOMAIN shape |-> InitEntry(k, shape[k])]
    /\ slotCountCfg = <<>>
    /\ activeEditor \in Files \cup {NoEditor}
    /\ cursor = Origin
    /\ lastEditor = activeEditor
    /\ pending = <<>>
    /\ prompts = <<>>
    /\ overlap = TRUE
    /\ events = 0
    /\ previewLimitCfg = <<>>
    /\ statusBar = StatusBarFor(stored, slotCountCfg, previewLimitCfg)
    /\ escaped = FALSE

NextEarlier ==
    \/ \E d \in DeleteEvents : EarlierFileDeletes(d)
    \/ EarlierWriteLands

SpecEarlier == InitEarlier /\ [][NextEarlier]_vars

\* ---------------------------------------------------------------- claims

\* the table as every handler reads it
Table == getSlots(stored)

\* the slots of t that hold the path rel
Holders(t, rel) == {k \in DOMAIN t : t[k].filePath = rel}

\* line and character of a binding
PositionOf(b) == [line |-> b.line, character |-> b.character]

\* C1: no filePath is held by more than one slot, in every state reached from
\* a table without a path bound twice by pin, clear, jump, focus-leave
\* tracking, delete-repair and rename-repair.
C1_UniquePaths ==
    \A k1, k2 \in DOMAIN Table : k1 # k2 => Table[k1].filePath # Table[k2].filePath

\* C2: a pin of the active file f at the cursor p into slot s2, while f is
\* bound to a different slot s1, leaves s1 empty and s2 holding f at p with
\* the mode f's binding had in s1.
C2_MovePreservesMode ==
    [][\A s2 \in Slots : \A s1 \in Holders(Table, getWorkspaceRelativePath(activeEditor)) :
          (Pin(s2) /\ s1 # SlotKey(s2))
          => /\ s1 \notin DOMAIN stored'
             /\ SlotKey(s2) \in DOMAIN stored'
             /\ getSlots(stored')[SlotKey(s2)] =
                    [filePath |-> getWorkspaceRelativePath(activeEditor),
                     line |-> cursor.line, character |-> cursor.character,
                     mode |-> Table[s1].mode]]_vars

\* C3: from every state, pin(s1, f, p1) followed by pin(s2, f, p2) on distinct
\* enabled slots leaves exactly one slot holding f: s2, at p2; s1 is empty.
C3_PinThenPin ==
    \A s1, s2 \in Slots : \A f \in Files : \A p1, p2 \in Positions :
        (s1 # s2 /\ s1 <= getSlotCount /\ s2 <= getSlotCount)
        => LET rel == getWorkspaceRelativePath(f)
               t1 == PinWrite(stored, s1, rel, p1).table
               t2 == PinWrite(ToStored(t1), s2, rel, p2).table
           IN /\ Holders(t2, rel) = {SlotKey(s2)}
              /\ PositionOf(t2[SlotKey(s2)]) = p2
              /\ SlotKey(s1) \notin DOMAIN t2

\* focus leaves the active editor in this step
FocusLeaves == activeEditor # NoEditor /\ activeEditor' # activeEditor

\* a focus change or cursor movement: Focus, MoveCursor or a jump that opens
Navigates == activeEditor' # activeEditor \/ cursor' # cursor

\* C4: for every enabled slot s, (a) a pin that leaves slot s static stores the
\* active file f and the cursor p in it, (b) no focus change or cursor
\* movement, in f or elsewhere, changes a static binding, and (c) jump(s) on a
\* static binding focuses the bound file with the cursor at the stored
\* position; hence jump(s) after pin(s, f, p) and any navigation opens f at p.
C4_StaticJumpRestores ==
    [][\A s \in Slots :
          LET k == SlotKey(s) IN
          /\ (stored' # stored /\ Pin(s) /\ getSlots(stored')[k].mode = "static")
             => /\ getSlots(stored')[k].filePath = getWorkspaceRelativePath(activeEditor)
                /\ PositionOf(getSlots(stored')[k]) = cursor
          /\ (k \in DOMAIN Table /\ Table[k].mode = "static" /\ Navigates)
             => /\ k \in DOMAIN stored'
                /\ getSlots(stored')[k] = Table[k]
          /\ (k \in DOMAIN Table /\ Table[k].mode = "static" /\ Navigates /\ JumpOpens(s))
             => /\ getWorkspaceRelativePath(activeEditor') = Table[k].filePath
                /\ cursor' = PositionOf(Table[k])]_vars

\* a static binding away from the origin whose file has the focus with the
\* cursor at the stored position, while another file's auto binding has been
\* tracked: the state after pin, navigation elsewhere and the jump back
C4_Witness ==
    \E k \in DOMAIN Table :
        /\ Table[k].mode = "static"
        /\ PositionOf(Table[k]) # Origin
        /\ getWorkspaceRelativePath(activeEditor) = Table[k].filePath
        /\ cursor = PositionOf(Table[k])
        /\ \E j \in DOMAIN Table \ {k} :
              /\ Table[j].mode = "auto"
              /\ Table[j].filePath # Table[k].filePath
              /\ PositionOf(Table[j]) # Origin

\* C5: when focus leaves a file f, every slot that binds f with mode auto
\* holds, in the persisted table, the cursor position f had at that moment.
C5_AutoTracking ==
    [][FocusLeaves
       => \A k \in Holders(Table, getWorkspaceRelativePath(activeEditor)) :
             Table[k].mode = "auto"
             => /\ k \in DOMAIN stored'
                /\ PositionOf(getSlots(stored')[k]) = cursor]_vars

\* C6: when focus leaves a file that a slot binds with mode static, or that no
\* slot binds, the persisted table is unchanged.
C6_StaticOrUnboundUntouched ==
    [][(/\ FocusLeaves
        /\ LET held == Holders(Table, getWorkspaceRelativePath(activeEditor))
           IN held = {} \/ \E k \in held : Table[k].mode = "static")
       => stored' = stored]_vars

\* C7: a focus-leave tracking update changes only the line and character of
\* one slot whose filePath is the left file's path: that slot keeps its mode
\* and filePath and every other slot keeps its binding.
C7_TrackingFrame ==
    [][(FocusLeaves /\ getSlots(stored') # Table)
       => \E k \in Holders(Table, getWorkspaceRelativePath(activeEditor)) :
             /\ DOMAIN stored' = DOMAIN stored
             /\ getSlots(stored')[k].mode = Table[k].mode
             /\ getSlots(stored')[k].filePath = Table[k].filePath
             /\ \A j \in DOMAIN Table \ {k} : getSlots(stored')[j] = Table[j]]_vars

\* focus has left a file whose auto binding now holds a tracked position,
\* next to a static binding of another file
C7_Witness ==
    \E k \in DOMAIN Table :
        /\ Table[k].mode = "auto"
        /\ PositionOf(Table[k]) # Origin
        /\ getWorkspaceRelativePath(activeEditor) # Table[k].filePath
        /\ \E j \in DOMAIN Table \ {k} :
              /\ Table[j].mode = "static"
              /\ Table[j].filePath # Table[k].filePath

\* the handlers that are no writers of position data
KeepsPositions == {"clear", "promptclear", "delete", "rename"}

\* C8 as stated: when the write of a clear (also the one offered after a
\* failed jump), a delete-repair or a rename-repair lands, every binding that
\* remains in its slot keeps its line and character, whatever handlers ran in
\* between.
C8_PositionsKeptOnLanding ==
    [][(WriteLands /\ Head(pending).op \in KeepsPositions)
       => \A k \in DOMAIN Table \cap DOMAIN stored' :
             (Head(pending).op # "rename" => getSlots(stored')[k].filePath = Table[k].filePath)
             => PositionOf(getSlots(stored')[k]) = PositionOf(Table[k])]_vars

\* the config.update call issued in this step, when there is one
Issues == Len(pending') = Len(pending) + 1
Issued == pending'[Len(pending')]

\* C8 as amended: the table that a clear, a delete-repair or a rename-repair
\* writes gives every binding it keeps the line and character of the snapshot
\* the handler read (for the clear offered after a failed jump: the snapshot of
\* the jump), and a jump issues no write but the tracking of the file it
\* leaves.
C8_PositionsKeptFromSnapshot ==
    [][Issues
       => /\ Issued.op \in KeepsPositions
             => LET snapshot == IF Issued.op = "promptclear"
                                THEN Head(prompts).slots ELSE Table
                IN \A k \in DOMAIN Issued.table :
                      /\ k \in DOMAIN snapshot
                      /\ PositionOf(Issued.table[k]) = PositionOf(snapshot[k])
          /\ (\E s \in Slots : JumpOpens(s) \/ JumpFails(s))
             => Issued.op = "leave"]_vars

\* the write of a clear or a repair is in flight and its table keeps a binding
\* away from the origin
C8_Witness ==
    \E i \in 1..Len(pending) :
        /\ pending[i].op \in KeepsPositions
        /\ \E k \in DOMAIN pending[i].table : PositionOf(pending[i].table[k]) # Origin

\* C9: from every state, a delete event removes every slot whose root-joined
\* filePath is among the deleted files and leaves every other slot's binding
\* (path, line, character, mode) as it was.
C9_DeleteRepair ==
    \A d \in DeleteEvents :
        LET after == getSlots(Persisted(stored, FileDeletesWrite(stored, d)))
        IN /\ DOMAIN after = {k \in DOMAIN Table : PathJoin(WsRoot, Table[k].filePath) \notin d}
           /\ \A k \in DOMAIN after : after[k] = Table[k]

\* a delete event that clears two slots and must keep a static binding away
\* from the origin
C9_Witness ==
    \E d \in DeleteEvents :
        /\ Cardinality(ClearedSlots(Table, d)) = 2
        /\ \E k \in DOMAIN Table \ ClearedSlots(Table, d) :
              Table[k].mode = "static" /\ PositionOf(Table[k]) # Origin

\* C10: from every state, a rename event rewrites the filePath of every slot
\* whose root-joined filePath is an old location to the workspace-relative
\* path of the new location, keeping line, character and mode; the slots that
\* match no old location are unchanged.
C10_RenameRepair ==
    \A e \in RenameEvents :
        LET after == getSlots(Persisted(stored, FileRenamesWrite(stored, e)))
        IN /\ DOMAIN after = DOMAIN Table
           /\ \A k \in DOMAIN Table :
                 LET old == PathJoin(WsRoot, Table[k].filePath) IN
                 /\ \A r \in e : r.oldUri = old
                       => /\ after[k].filePath = Relative(WsRoot, r.newUri)
                          /\ Join(WsRoot, after[k].filePath) = r.newUri
                          /\ after[k].line = Table[k].line
                          /\ after[k].character = Table[k].character
                          /\ after[k].mode = Table[k].mode
                 /\ (\A r \in e : r.oldUri # old) => after[k] = Table[k]

\* a rename event whose old location is held by a static binding away from
\* the origin, next to a binding the event does not name
C10_Witness ==
    \E e \in RenameEvents :
        /\ \E k \in UpdatedSlots(Table, e) :
              Table[k].mode = "static" /\ PositionOf(Table[k]) # Origin
        /\ DOMAIN Table \ UpdatedSlots(Table, e) # {}

\* C11: a delete or rename event that affects k >= 1 bound files issues
\* exactly one config.update whose table holds all k repairs, and none when
\* k = 0; every handler step issues at most one config.update, and a landing
\* write replaces the whole 'slots' value.
C11_BatchedWrites ==
    [][/\ \A d \in DeleteEvents :
             FileDeletes(d)
             => IF ClearedSlots(Table, d) = {}
                THEN pending' = pending
                ELSE /\ Issues
                     /\ Issued.table = [k \in DOMAIN Table \ ClearedSlots(Table, d) |-> Table[k]]
       /\ \A e \in RenameEvents :
             FileRenames(e)
             => IF UpdatedSlots(Table, e) = {}
                THEN pending' = pending
                ELSE /\ Issues
                     /\ DOMAIN Issued.table = DOMAIN Table
                     /\ \A k \in DOMAIN Table :
                           \A r \in e :
                              r.oldUri = PathJoin(WsRoot, Table[k].filePath)
                              => Issued.table[k].filePath = Relative(WsRoot, r.newUri)
       /\ Len(pending') <= Len(pending) + 1
       /\ Len(pending') > Len(pending) => SubSeq(pending', 1, Len(pending)) = pending
       /\ stored' # stored
          => /\ pending # <<>>
             /\ pending' = Tail(pending)
             /\ stored' = ToStored(Head(pending).table)]_vars

\* one event has repaired two bound files and its single write is in flight
C11_Witness ==
    \E i \in 1..Len(pending) :
        /\ pending[i].op \in {"delete", "rename"}
        /\ \/ Cardinality(DOMAIN Table \ DOMAIN pending[i].table) = 2
           \/ Cardinality({k \in DOMAIN Table \cap DOMAIN pending[i].table :
                              pending[i].table[k].filePath # Table[k].filePath}) = 2

\* the table a delete or rename event leaves behind
AfterDeletes(raw, d) == Persisted(raw, FileDeletesWrite(raw, d))
AfterRenames(raw, e) == Persisted(raw, FileRenamesWrite(raw, e))

\* C12 as stated: from every state, the second delivery of the same delete
\* event, or of the same rename event, issues no write and so leaves the table
\* as it is after the first delivery.
C12_RepairsIdempotent ==
    /\ \A d \in DeleteEvents : FileDeletesWrite(AfterDeletes(stored, d), d) = NoUpdate
    /\ \A e \in RenameEvents : FileRenamesWrite(AfterRenames(stored, e), e) = NoUpdate

\* a rename event none of whose new locations is also one of its old locations
Unchained(e) == \A r1, r2 \in e : r1.newUri # r2.oldUri

\* C12 as amended: the second delivery of the same delete event, or of the
\* same rename event none of whose new locations is also one of its old
\* locations, issues no write and leaves the table as after the first delivery.
C12_UnchainedRepairsIdempotent ==
    /\ \A d \in DeleteEvents :
          /\ FileDeletesWrite(AfterDeletes(stored, d), d) = NoUpdate
          /\ AfterDeletes(AfterDeletes(stored, d), d) = AfterDeletes(stored, d)
    /\ \A e \in RenameEvents :
          Unchained(e)
          => /\ FileRenamesWrite(AfterRenames(stored, e), e) = NoUpdate
             /\ AfterRenames(AfterRenames(stored, e), e) = AfterRenames(stored, e)

\* a rename event without a chain that moves two bound files, next to a delete
\* event that clears a bound file
C12_Witness ==
    /\ \E e \in RenameEvents :
          Unchained(e) /\ Cardinality(UpdatedSlots(Table, e)) = 2
    /\ \E d \in DeleteEvents : ClearedSlots(Table, d) # {}
    /\ \E k \in DOMAIN Table : PositionOf(Table[k]) # Origin

\* C13: reading the store returns exactly the stored slot keys; a legacy
\* string entry reads as its path at line 0, character 0 with mode auto; an
\* object entry reads with its path, line and character and with its mode, or
\* auto when the mode is missing.
C13_MigrationOnRead ==
    /\ DOMAIN getSlots(stored) = DOMAIN stored
    /\ \A k \in DOMAIN stored :
          /\ getSlots(stored)[k].filePath = stored[k].filePath
          /\ getSlots(stored)[k] \in [filePath : StoredPaths, line : Nat, character : Nat,
                                      mode : Modes]
          /\ stored[k].form = "string"
             => getSlots(stored)[k] = [filePath |-> stored[k].filePath, line |-> 0,
                                       character |-> 0, mode |-> "auto"]
          /\ stored[k].form = "object"
             => /\ PositionOf(getSlots(stored)[k]) = PositionOf(stored[k])
                /\ getSlots(stored)[k].mode =
                       (IF stored[k].mode \in Modes THEN stored[k].mode ELSE "auto")

\* the store holds a legacy string entry, an object entry without a mode and
\* an object entry with the mode static
C13_Witness ==
    /\ \E k \in DOMAIN stored : stored[k].form = "string"
    /\ \E k \in DOMAIN stored : stored[k].form = "object" /\ stored[k].mode = "undefined"
    /\ \E k \in DOMAIN stored : stored[k].form = "object" /\ stored[k].mode = "static"

\* a command or refresh that only reads the table takes this step
ReadsOnly ==
    \/ \E n \in Slots : PinRejected(n) \/ JumpRejected(n) \/ ClearRejected(n)
    \/ ShowStatus
    \/ UpdateStatusBar

EffectiveSlotCount ==
    LET n == IF slotCountCfg = <<>> THEN 3 ELSE slotCountCfg[1]
    IN IF n < 1 THEN 1 ELSE IF n > 9 THEN 9 ELSE n

\* C15: for every slot number above the effective slotCount (3 when unset),
\* pin, jump and clear each return with the SlotDisabled warning that names
\* the slot and the current limit; none of them is accepted, so no file is
\* opened, no prompt is shown and no write is issued, and the step of the
\* rejected command leaves table and focus as they are.
C15_SlotDisabled ==
    \A s \in Commands :
        s > EffectiveSlotCount
        => /\ PinMessage(s) = [kind |-> "SlotDisabled", slot |-> s,
                               limit |-> EffectiveSlotCount]
           /\ JumpMessage(s) = PinMessage(s)
           /\ ClearMessage(s) = PinMessage(s)
           /\ ~PinAccepted(s) /\ ~JumpAccepted(s) /\ ~ClearAccepted(s)
           /\ s \in Slots
              => /\ ~ENABLED (Pin(s) \/ Clear(s) \/ JumpOpens(s) \/ JumpFails(s))
                 /\ ENABLED PinRejected(s)
                 /\ ENABLED JumpRejected(s)
                 /\ ENABLED ClearRejected(s)
                 /\ ~ENABLED (/\ PinRejected(s) \/ JumpRejected(s) \/ ClearRejected(s)
                              /\ <<stored, pending, activeEditor, cursor>>' #
                                     <<stored, pending, activeEditor, cursor>>)

\* only slot 1 is enabled while slot 2 holds a binding with a stored position
\* and its file has the focus: pin, jump and clear of slot 2 are the rejected
\* commands
C15_Witness ==
    /\ getSlotCount = 1
    /\ "2" \in DOMAIN Table
    /\ PositionOf(Table["2"]) # Origin
    /\ activeEditor = PathJoin(WsRoot, Table["2"].filePath)

\* the bound slots above the effective slotCount
InertKeys == {SlotKey(n) : n \in (getSlotCount + 1)..MAX_SLOT_COUNT} \cap DOMAIN Table

\* the slots whose commands are accepted
EnabledSlots == {s \in Slots : s <= getSlotCount}

\* the binding of slot k is not what it was
Touched(k) == k \notin DOMAIN stored' \/ getSlots(stored')[k] # Table[k]

InsideWorkspace(rel) == rel # <<>> /\ Head(rel) # ".."

\* C17: from every state, the filePath an accepted pin stores for the active
\* file, and the filePath rename-repair stores for each new location, is a
\* relative path with no leading '..' component.
C17_StoredPathsInside ==
    /\ \A s \in Slots :
          PinAccepted(s)
          => InsideWorkspace(PinWrite(stored, s, getWorkspaceRelativePath(activeEditor),
                                      cursor).table[SlotKey(s)].filePath)
    /\ \A e \in RenameEvents : \A k \in UpdatedSlots(Table, e) :
          InsideWorkspace(RenameTable(Table, e)[k].filePath)

\* the active file lies outside the workspace root
OutOfWorkspace == activeEditor # NoEditor /\ CommonPrefixLen(WsRoot, activeEditor) < Len(WsRoot)

\* C18: while the active file is not under the workspace root, pin of an
\* enabled slot returns with the 'File must be in workspace' warning, is not
\* accepted and issues no write.
C18_OutOfWorkspaceRejected ==
    \A s \in Slots :
        (OutOfWorkspace /\ s <= getSlotCount)
        => /\ PinMessage(s) = Warning("File must be in workspace", 0)
           /\ ~PinAccepted(s)
           /\ ~ENABLED (Pin(s) /\ stored' # stored)

\* C19: a jump that cannot open the bound file opens the "Clear Slot s?"
\* prompt and issues no write; answering 'No' or dismissing the prompt issues
\* no write and leaves the table as it is; answering 'Yes' issues one write of
\* a table without slot s, and slot s is empty once that write has landed.
C19_FileUnavailable ==
    [][/\ \A s \in Slots :
             JumpFails(s)
             => /\ Len(prompts') = Len(prompts) + 1
                /\ prompts'[Len(prompts')].slot = s
                /\ UNCHANGED <<stored, pending, activeEditor, cursor>>
       /\ Len(prompts') < Len(prompts)
          => \/ /\ AnswerNo
                /\ UNCHANGED <<stored, pending>>
             \/ /\ AnswerYes
                /\ Issues
                /\ Issued.op = "promptclear"
                /\ Issued.slot = Head(prompts).slot
                /\ SlotKey(Issued.slot) \notin DOMAIN Issued.table
                /\ stored' = stored
       /\ (WriteLands /\ Head(pending).op = "promptclear")
          => SlotKey(Head(pending).slot) \notin DOMAIN stored']_vars

\* the user has answered 'Yes' to the prompt of a failed jump: the clear is in
\* flight and the slot is still bound in the persisted table
C19_Witness ==
    \E i \in 1..Len(pending) :
        /\ pending[i].op = "promptclear"
        /\ SlotKey(pending[i].slot) \in DOMAIN stored

\* the slots a handler's write w changes with respect to the table t it read
OwnKeys(w, t) ==
    IF w.op \in {"bound", "rebound", "clear", "promptclear"} THEN {SlotKey(w.slot)}
    ELSE IF w.op = "moved" THEN {SlotKey(w.slot), w.from}
    ELSE IF w.op = "delete" THEN DOMAIN t \ DOMAIN w.table
    ELSE IF w.op = "rename"
         THEN {k \in DOMAIN t \cap DOMAIN w.table : w.table[k].filePath # t[k].filePath}
    ELSE Holders(t, getWorkspaceRelativePath(lastEditor))

\* C20: a landing write makes the persisted table exactly the table its
\* handler wrote, whatever landed before it, and the persisted table changes
\* in no other way; the table a handler writes while another write is in
\* flight is its own snapshot (the persisted table it read, for the clear of a
\* prompt the table its jump read) with its own change, so the change of the
\* write in flight is absent from it.
C20_LastWriteWins ==
    [][/\ stored' # stored
          => /\ pending # <<>>
             /\ pending' = Tail(pending)
             /\ stored' = ToStored(Head(pending).table)
             /\ getSlots(stored') = Head(pending).table
       /\ (Issues /\ pending # <<>>)
          => LET snapshot == IF Issued.op = "promptclear" THEN Head(prompts).slots ELSE Table
             IN \A k \in (DOMAIN snapshot \cup DOMAIN Issued.table) \ OwnKeys(Issued, snapshot) :
                   /\ k \in DOMAIN snapshot
                   /\ k \in DOMAIN Issued.table
                   /\ Issued.table[k] = snapshot[k]]_vars

\* a pin into an empty slot and a delete-repair are both in flight, and the
\* repair's table, written last, lacks the pinned binding
C20_Witness ==
    /\ Len(pending) = 2
    /\ pending[1].op = "bound"
    /\ pending[2].op = "delete"
    /\ SlotKey(pending[1].slot) \notin DOMAIN pending[2].table
    /\ SlotKey(pending[1].slot) \notin DOMAIN stored

\* C21: when the config.update issued by pin, clear, tracking, delete-repair
\* or rename-repair is rejected, the persisted table stays as it was and the
\* rejection does not leave the handler that awaited it (the handler catches
\* it and reports it).
C21_StorageError == [][WriteFails => (stored' = stored /\ ~escaped')]_vars

\* an entry of the stored table that is a binding (non-negative position, mode
\* auto, static or absent) or a legacy path string
ValidEntry(e) ==
    \/ e.form = "string" /\ e.filePath # <<>>
    \/ /\ e.form = "object"
       /\ e.filePath # <<>>
       /\ e.line >= 0
       /\ e.character >= 0
       /\ e.mode \in Modes \cup {"undefined"}

\* C22: a write of the slot document whose text does not parse is rejected
\* with an error and leaves the stored table as it was; every write that is
\* accepted leaves a stored table whose entries are all bindings or legacy
\* path strings.
C22_DirectEdit ==
    \A content \in Contents :
        LET result == writeFile(stored, content)
        IN /\ ~content.parses => result.error # "none" /\ result.stored = stored
           /\ result.error = "none" => \A k \in DOMAIN result.stored : ValidEntry(result.stored[k])

\* `Slot ${slotNumber} is already empty`
AlreadyEmpty(slotNumber) == Warning("Slot is already empty", slotNumber)

\* C23: clear of an enabled slot that holds no binding returns with the
\* 'already empty' message, issues no write and leaves table and focus as
\* they are; and the table an accepted clear(s) writes has slot s empty, so a
\* second clear(s) is that case and the table stays the one the first clear
\* wrote.
C23_ClearEmpty ==
    \A s \in Slots :
        /\ (s <= getSlotCount /\ SlotKey(s) \notin DOMAIN Table)
           => /\ ClearMessage(s) = AlreadyEmpty(s)
              /\ ~ENABLED Clear(s)
              /\ ENABLED ClearRejected(s)
              /\ ~ENABLED (/\ ClearRejected(s)
                           /\ <<stored, pending, activeEditor, cursor, lastEditor>>' #
                                  <<stored, pending, activeEditor, cursor, lastEditor>>)
        /\ ClearAccepted(s)
           => LET once == ToStored(ClearTable(Table, s))
              IN /\ SlotKey(s) \notin DOMAIN getSlots(once)
                 /\ ToStored(ClearTable(getSlots(once), s)) = once

\* a handler has written the table, which holds a binding, and an enabled
\* slot of it is empty
C23_Witness ==
    /\ stored # <<>>
    /\ \A k \in DOMAIN stored : stored[k].mode \in Modes
    /\ \E s \in Slots : s <= getSlotCount /\ SlotKey(s) \notin DOMAIN Table
    /\ \E s \in Slots : ClearAccepted(s)

\* the mode the settings file gives slot k explicitly, "auto" when it gives none
ExplicitMode(k) ==
    IF stored[k].form = "object" /\ stored[k].mode \in Modes THEN stored[k].mode ELSE "auto"

\* slot s holds a file other than the active one, and the active file is
\* bound to no slot
OverwritesOther(s) ==
    /\ PinAccepted(s)
    /\ SlotKey(s) \in DOMAIN Table
    /\ Holders(Table, getWorkspaceRelativePath(activeEditor)) = {}

\* C24: a pin into a slot that holds a different file, while the active file
\* is bound to no slot, is carried out at once (no prompt is opened) with one
\* write; in the written table slot s holds the active file at the cursor,
\* with the mode the slot had explicitly and auto when it had none, and every
\* other slot is as before.
C24_OverwriteOther ==
    \A s \in Slots :
        OverwritesOther(s)
        => LET rel == getWorkspaceRelativePath(activeEditor)
               w == PinWrite(stored, s, rel, cursor)
           IN /\ w.op = "rebound"
              /\ DOMAIN w.table = DOMAIN Table
              /\ w.table[SlotKey(s)] =
                     [filePath |-> rel, line |-> cursor.line,
                      character |-> cursor.character, mode |-> ExplicitMode(SlotKey(s))]
              /\ \A k \in DOMAIN Table \ {SlotKey(s)} : w.table[k] = Table[k]
              /\ ENABLED Pin(s)
              /\ ~ENABLED (Pin(s) /\ <<prompts, stored>>' # <<prompts, ToStored(w.table)>>)

\* a slot set to static by hand holds one file while another, unbound file
\* has the focus with the cursor off the origin
C24_Witness ==
    \E s \in Slots :
        /\ OverwritesOther(s)
        /\ stored[SlotKey(s)].mode = "static"
        /\ cursor # Origin

\* the slots other than s that hold the active file
Elsewhere(s) == Holders(Table, getWorkspaceRelativePath(activeEditor)) \ {SlotKey(s)}

\* the message an accepted pin of slot s shows in the current state
PinOutcome(s) ==
    PinResult(stored, s, activeEditor, getWorkspaceRelativePath(activeEditor), cursor)

\* C25: every accepted pin(s) of the active file shows exactly one message:
\* Moved, naming a slot that held the file and the target, exactly when the
\* file is bound to a slot other than s; Bound exactly when slot s is empty
\* and the file is bound nowhere; Rebound, naming the file slot s held,
\* exactly when slot s holds a binding and the file is bound to no other slot.
C25_PinOutcome ==
    \A s \in Slots :
        PinAccepted(s)
        => LET r == PinOutcome(s)
               held == SlotKey(s) \in DOMAIN Table
           IN /\ r.kind \in {"Moved", "Bound", "Rebound"}
              /\ r.kind = "Moved" <=> Elsewhere(s) # {}
              /\ r.kind = "Moved" => r.from \in Elsewhere(s) /\ r.slot = s
              /\ r.kind = "Bound" <=> ~held /\ Elsewhere(s) = {}
              /\ r.kind = "Rebound" <=> held /\ Elsewhere(s) = {}
              /\ r.kind = "Rebound"
                 => r.slot = s /\ r.previousFileName = Basename(Table[SlotKey(s)].filePath)

\* the table holds exactly one binding, in the enabled slot s
OnlyBinding(s) == s <= getSlotCount /\ DOMAIN Table = {SlotKey(s)}

\* C26: an accepted pin(s) on an empty table writes exactly the table
\* {s: {filePath: f, line: l, character: c, mode: auto}} for the active file f
\* and the cursor (l, c), and its message shows line l + 1; and whenever the
\* table is one such binding, jump(s) opens the file root/filePath (f, after
\* that pin) and puts the cursor at the stored (line, character).
C26_PinThenJump ==
    \A s \in Slots :
        /\ (PinAccepted(s) /\ Table = <<>>)
           => LET rel == getWorkspaceRelativePath(activeEditor)
                  after == getSlots(ToStored(PinWrite(stored, s, rel, cursor).table))
              IN /\ DOMAIN after = {SlotKey(s)}
                 /\ after[SlotKey(s)] = [filePath |-> rel, line |-> cursor.line,
                                         character |-> cursor.character, mode |-> "auto"]
                 /\ PathJoin(WsRoot, after[SlotKey(s)].filePath) = activeEditor
                 /\ PinOutcome(s).kind = "Bound"
                 /\ PinOutcome(s).line = cursor.line + 1
        /\ OnlyBinding(s)
           => /\ JumpAccepted(s)
              /\ JumpTarget(s) = PathJoin(WsRoot, Table[SlotKey(s)].filePath)
              /\ ENABLED JumpOpens(s)
              /\ ~ENABLED (/\ JumpOpens(s)
                           /\ \/ activeEditor' # JumpTarget(s)
                              \/ cursor' # PositionOf(Table[SlotKey(s)]))

\* the table is the single binding a pin wrote for the active file with the
\* cursor off the origin, and the file still has the focus at that position
C26_Witness ==
    \E s \in Slots :
        /\ OnlyBinding(s)
        /\ stored[SlotKey(s)] =
               StoredObject([filePath |-> getWorkspaceRelativePath(activeEditor),
                             line |-> cursor.line, character |-> cursor.character,
                             mode |-> "auto"])
        /\ cursor # Origin

\* what updateStatusBar would display for the persisted table and settings
Rendering == StatusBarFor(stored, slotCountCfg, previewLimitCfg)

\* C27: in every state, during and after every handler's write and after
\* every edit of slots, slotCount or statusPreviewLimit, the status bar shows
\* the rendering of the persisted table under the current settings; so it
\* does whenever no write is in flight and no prompt is open.
C27_PresentationRefresh ==
    /\ statusBar = Rendering
    /\ (pending = <<>> /\ prompts = <<>>) => statusBar = Rendering

\* a handler's write has landed and the preview limit was edited, nothing is
\* in flight, and the status bar shows an overflow counter
C27_Witness ==
    /\ pending = <<>>
    /\ prompts = <<>>
    /\ stored # OverlapTable
    /\ previewLimitCfg # <<>>
    /\ statusBar.shown
    /\ statusBar.overflow > 0

\* the bound slots among 1..slotCount
BoundSlots == {n \in 1..getSlotCount : SlotKey(n) \in DOMAIN Table}

\* the number of bound slots below n
Rank(n) == Cardinality({m \in BoundSlots : m < n})

\* C28: with B the number of bound slots among 1..slotCount, the status bar
\* is shown iff B > 0 and lists the min(B, previewLimit) lowest-numbered bound
\* slots in ascending order, each with its file name and line + 1; the
\* overflow counter is B - previewLimit when B > previewLimit and absent
\* otherwise; the entries never number more than previewLimit.
C28_StatusSummary ==
    LET B == Cardinality(BoundSlots)
        limit == getPreviewLimit
        visible == statusBar.visible
    IN /\ statusBar.shown <=> B > 0
       /\ Len(visible) = IF B < limit THEN B ELSE limit
       /\ Len(visible) <= limit
       /\ {visible[i].slot : i \in 1..Len(visible)} = {n \in BoundSlots : Rank(n) < limit}
       /\ \A i, j \in 1..Len(visible) : i < j => visible[i].slot < visible[j].slot
       /\ \A i \in 1..Len(visible) :
             /\ visible[i].fileName = Basename(Table[SlotKey(visible[i].slot)].filePath)
             /\ visible[i].line = Table[SlotKey(visible[i].slot)].line + 1
       /\ statusBar.overflow > 0 <=> B > limit
       /\ B > limit => statusBar.overflow = B - limit

\* three slots are bound and the preview limit is 2: two entries and +1
C28_Witness ==
    /\ Cardinality(BoundSlots) = 3
    /\ getPreviewLimit = 2
    /\ Len(statusBar.visible) = 2
    /\ statusBar.overflow = 1

\* integers a user may configure: negative, zero, in range and above the
\* maximum
ConfiguredIntegers == (0 - MAX_SLOT_COUNT)..(2 * MAX_SLOT_COUNT)

\* the clamping of every pair of configured integers, and of unset settings
ClampsConfigured ==
    /\ \A c \in ConfiguredIntegers :
          /\ SlotCountFor(<<c>>) \in 1..MAX_SLOT_COUNT
          /\ c \in 1..MAX_SLOT_COUNT => SlotCountFor(<<c>>) = c
          /\ c < 1 => SlotCountFor(<<c>>) = 1
          /\ c > MAX_SLOT_COUNT => SlotCountFor(<<c>>) = MAX_SLOT_COUNT
          /\ PreviewLimitFor(<<>>, <<c>>) = PreviewLimitFor(<<DefaultPreviewLimit>>, <<c>>)
          /\ \A l \in ConfiguredIntegers :
                /\ PreviewLimitFor(<<l>>, <<c>>) \in 1..SlotCountFor(<<c>>)
                /\ PreviewLimitFor(<<l>>, <<>>) \in 1..SlotCountFor(<<>>)
                /\ l \in 1..SlotCountFor(<<c>>) => PreviewLimitFor(<<l>>, <<c>>) = l
                /\ l < 1 => PreviewLimitFor(<<l>>, <<c>>) = 1
                /\ l > SlotCountFor(<<c>>) => PreviewLimitFor(<<l>>, <<c>>) = SlotCountFor(<<c>>)
    /\ SlotCountFor(<<>>) = 3
    /\ PreviewLimitFor(<<>>, <<>>) = 3

\* C29: for every configured integer slotCount c and statusPreviewLimit l,
\* the effective slotCount is c clamped to 1..9 and the effective
\* previewLimit is l clamped to 1..effective slotCount; an unset setting
\* counts as 3, in each of them; and the values in force in every state lie
\* in these ranges.
C29_Clamping ==
    /\ ClampsConfigured
    /\ getSlotCount = SlotCountFor(slotCountCfg)
    /\ getSlotCount \in 1..MAX_SLOT_COUNT
    /\ getPreviewLimit \in 1..getSlotCount

\* slotCount is configured as 0 and statusPreviewLimit as 10: one slot is
\* enabled and the status bar, which is shown, previews one
C29_Witness ==
    /\ slotCountCfg = <<0>>
    /\ previewLimitCfg = <<10>>
    /\ getSlotCount = 1
    /\ getPreviewLimit = 1
    /\ statusBar.shown

\* the list file-bind.showStatus offers in the current state
QuickPickItems == createQuickPickItems(getSlots(stored))

\* C30: the list of showStatus has exactly one item for each slot
\* 1..slotCount, in ascending slot order; the item of slot n is marked bound,
\* with the slot's path, line + 1, character and mode, iff the table holds a
\* binding for n, and is marked empty otherwise; no item belongs to a slot
\* above slotCount, whatever the table holds there.
C30_SelectionList ==
    /\ Len(QuickPickItems) = getSlotCount
    /\ \A i \in 1..Len(QuickPickItems) :
          LET item == QuickPickItems[i]
          IN /\ item.slot = i
             /\ item.bound <=> SlotKey(i) \in DOMAIN Table
             /\ item.bound
                => /\ item.filePath = Table[SlotKey(i)].filePath
                   /\ item.line = Table[SlotKey(i)].line + 1
                   /\ item.character = Table[SlotKey(i)].character
                   /\ item.mode = Table[SlotKey(i)].mode
                   /\ item.mode \in Modes
    /\ \A k \in DOMAIN Table :
          Cardinality({i \in 1..Len(QuickPickItems) : SlotKey(QuickPickItems[i].slot) = k})
              = IF k \in {SlotKey(n) : n \in 1..getSlotCount} THEN 1 ELSE 0

\* one slot is enabled: slot 1 is bound off the origin with mode static, and
\* slot 2, above the slot count, is bound too
C30_Witness ==
    /\ getSlotCount = 1
    /\ "1" \in DOMAIN Table
    /\ Table["1"].line > 0
    /\ Table["1"].mode = "static"
    /\ "2" \in DOMAIN Table
    /\ Len(QuickPickItems) = 1

\* C31: for every item of the list, accepting the item of a bound slot s runs
\* jump(s) for that slot, whatever path the slot holds, and accepting the item
\* of an empty slot runs no jump (and so changes nothing).
C31_Selection ==
    \A i \in 1..Len(QuickPickItems) :
        LET item == QuickPickItems[i]
        IN /\ item.bound => SelectedSlot(Label(item)) = item.slot
           /\ ~item.bound => SelectedSlot(Label(item)) = NoSelection

\* the slot holds the file of the active editor
HoldsActive(n) ==
    /\ activeEditor # NoEditor
    /\ SlotKey(n) \in DOMAIN Table
    /\ Table[SlotKey(n)].filePath = getWorkspaceRelativePath(activeEditor)

\* C32: in the status bar and in the selection list the entry of a bound
\* slot that holds the active file carries a marker that no entry of a bound
\* slot holding another file carries, in every state, so also after every
\* focus change.
C32_ActiveMarker ==
    /\ \A i, j \in 1..Len(statusBar.visible) :
          (HoldsActive(statusBar.visible[i].slot) /\ ~HoldsActive(statusBar.visible[j].slot))
          => statusBar.visible[i].icon # statusBar.visible[j].icon
    /\ \A i, j \in 1..Len(QuickPickItems) :
          (/\ QuickPickItems[i].bound /\ QuickPickItems[j].bound
           /\ HoldsActive(i) /\ ~HoldsActive(j))
          => Label(QuickPickItems[i])[1] # Label(QuickPickItems[j])[1]

\* the table the clear of the oldest open prompt writes when the user
\* answers 'Yes' now
PromptClearTable == ClearTable(Head(prompts).slots, Head(prompts).slot)

\* C33: while a "Clear Slot N?" prompt is open, the table its clear would
\* write on 'Yes' is the persisted table as it is now without slot N: every
\* other slot is in it exactly as currently persisted, whatever was written
\* while the prompt was open.
C33_FreshSnapshot ==
    prompts # <<>>
    => \A k \in (DOMAIN Table \cup DOMAIN PromptClearTable) \ {SlotKey(Head(prompts).slot)} :
          /\ k \in DOMAIN Table
          /\ k \in DOMAIN PromptClearTable
          /\ PromptClearTable[k] = Table[k]

\* a focus-change listener is awaiting the write of its leave handling
LeaveInFlight == \E i \in 1..Len(pending) : pending[i].op = "leave"

\* C34: the editor whose leave the next focus change handles, the tracker's
\* lastEditor, is the editor that has the focus, so that each loss of focus
\* is handled for the editor that lost it; in particular lastEditor is the
\* focused editor whenever no focus-change listener is in flight, however
\* focus changes and landing writes interleave.
C34_FocusTracker ==
    /\ ~LeaveInFlight => lastEditor = activeEditor
    /\ lastEditor = activeEditor

\* the table persisted when the earlier delete listener, run on the
\* persisted table for the event files, has finished
EarlierFinal(files) ==
    LET writes == EarlierDeleteWrites(stored, files)
    IN IF writes = <<>> THEN stored ELSE writes[Len(writes)]

\* C35: for every delete event, the table persisted when the earlier delete
\* listener has finished holds no entry for a slot whose file is among the
\* deleted ones, and holds every other slot's entry unchanged, also when the
\* event deletes the files of several slots.
C35_EarlierDelete ==
    pending = <<>>
    => \A d \in DeleteEvents :
          /\ \A k \in DOMAIN stored :
                PathJoin(WsRoot, stored[k].filePath) \in d => k \notin DOMAIN EarlierFinal(d)
          /\ \A k \in DOMAIN stored :
                PathJoin(WsRoot, stored[k].filePath) \notin d
                => k \in DOMAIN EarlierFinal(d) /\ EarlierFinal(d)[k] = stored[k]

\* every entry of raw is an object with a line, a character and one of the
\* two modes
FullShape(raw) ==
    \A k \in DOMAIN raw :
        /\ raw[k].form = "object"
        /\ raw[k].line \in Nat /\ raw[k].character \in Nat
        /\ raw[k].mode \in Modes

\* C36: whenever a pin (binding, rebinding or moving), a clear, a tracking
\* update on focus loss (by a focus change or a jump), a delete-repair or a
\* rename-repair writes the table, every entry of the persisted table, the
\* entries of untargeted slots included, is an object with line, character and
\* an explicit mode: no legacy string entry and no entry without a mode is
\* left after the write. The one other change of the persisted table is the
\* user's edit of a mode in the settings file.
C36_UpgradeOnMutation ==
    [][stored' # stored => FullShape(stored') \/ \E k \in Keys, m \in Modes : EditMode(k, m)]_vars

\* the table holds a legacy string entry and an entry without a mode, and a
\* clear of another slot stores both as objects with mode auto
C36_Witness ==
    \E s \in Slots : \E k1, k2 \in DOMAIN stored \ {SlotKey(s)} :
        /\ stored[k1].form = "string"
        /\ stored[k2].form = "object" /\ stored[k2].mode = "undefined"
        /\ ENABLED (/\ Clear(s)
                    /\ stored'[k1] = [form |-> "object", filePath |-> stored[k1].filePath,
                                      line |-> 0, character |-> 0, mode |-> "auto"]
                    /\ stored'[k2].mode = "auto")

\* the slots whose binding, as getSlots reads it, is not the same once raw is
\* the persisted value as it is now: bound, emptied or changed in path, line,
\* character or mode
Changed(raw) ==
    {k \in DOMAIN Table \cup DOMAIN raw :
        \/ k \notin DOMAIN Table
        \/ k \notin DOMAIN raw
        \/ getSlots(raw)[k] # Table[k]}

\* the persisted value once the accepted pin of the active file at the cursor
\* into slot s has run
AfterPin(s) ==
    Persisted(stored, PinWrite(stored, s, getWorkspaceRelativePath(activeEditor), cursor))

\* C37: a pin of the active file f into slot s changes at most two slots, s
\* and a slot that held f before the pin; every other slot reads the same
\* binding (path, line, character, mode) after the pin as before it, or is
\* empty before and after.
C37_PinFrame ==
    \A s \in Slots :
        PinAccepted(s)
        => /\ Changed(AfterPin(s)) \subseteq
                  {SlotKey(s)} \cup Holders(Table, getWorkspaceRelativePath(activeEditor))
           /\ Cardinality(Changed(AfterPin(s))) <= 2

\* the file bound to one slot can be pinned into another while a third slot
\* holds another file: the pin empties the first, binds the second and leaves
\* the third as it was
C37_Witness ==
    \E s \in Slots : \E from, other \in DOMAIN Table :
        /\ from # SlotKey(s) /\ other \notin {from, SlotKey(s)}
        /\ Table[from].filePath = getWorkspaceRelativePath(activeEditor)
        /\ Changed(AfterPin(s)) = {from, SlotKey(s)}
        /\ ENABLED (/\ Pin(s)
                    /\ stored' = AfterPin(s)
                    /\ from \notin DOMAIN stored'
                    /\ SlotKey(s) \in DOMAIN stored'
                    /\ other \in DOMAIN stored'
                    /\ getSlots(stored')[other] = Table[other])

\* the table handleEditorLeave persists when the editor of file is left with
\* the selection at position (the stored table when it writes nothing)
AfterLeave(file, position) ==
    IF LeaveWrites(stored, file) THEN getSlots(ToStored(LeaveTable(stored, file, position)))
    ELSE Table

\* C38: whatever the slot count, for every stored slot k, the slots above the
\* slot count included: when the editor of the file bound to k with mode auto
\* loses the focus, the binding of k gets the line and character of that
\* editor's selection; a delete event naming the file bound to k removes k;
\* a rename event naming the file bound to k as an old location rewrites the
\* path of k to the new location.
C38_AnySlotRepaired ==
    \A k \in DOMAIN Table :
        LET full == PathJoin(WsRoot, Table[k].filePath) IN
        /\ Table[k].mode = "auto"
           => \A position \in Positions :
                 PositionOf(AfterLeave(full, position)[k]) = position
        /\ \A d \in DeleteEvents :
              full \in d
              => k \notin DOMAIN getSlots(Persisted(stored, FileDeletesWrite(stored, d)))
        /\ \A e \in RenameEvents : \A r \in e :
              r.oldUri = full
              => getSlots(Persisted(stored, FileRenamesWrite(stored, e)))[k].filePath
                     = PathRelative(WsRoot, r.newUri)

====
